---- MODULE Spec2Model ----
(***************************************************************************)
(* thejord-api: the blog_posts store, the editor's routes that write it    *)
(* (POST /api/posts, PUT /api/posts/:id, DELETE /api/posts/:id) and the    *)
(* cron job that publishes scheduled posts and revalidates the frontend    *)
(* cache.  Every await of the cron callback is a point where another       *)
(* callback or request handler may run, so the callback is one action per  *)
(* await: the findMany, each blog_posts.update, each fetch.                *)
(*                                                                         *)
(* Time is counted in ticks of the cron schedule: the clock advances when  *)
(* the job fires, so two executions of the callback never share their now. *)
(* A post is kept with the columns the job and the routes read or write.   *)
(* The response of a request is kept in res where a route is observed; the *)
(* requests that run beside the cron job are the served ones, and their    *)
(* responses are not kept.                                                 *)
(***************************************************************************)
EXTENDS Integers, Sequences, FiniteSets, TLC

\* ---------------------------------------------------------------- bounds
NumPosts == 2
NumSweeps == 2
MaxTime == 2
MaxEdits == 1
NumSlugs == 1
NumKeys == 2
NumValues == 2
MaxTicks == 1
MaxWall == 3
MaxOver == 2
MaxEvents == 2
MaxRequests == 3
MaxUploads == 2

PostIds == 1..NumPosts
SweepIds == 1..NumSweeps
Times == 0..MaxTime
Slugs == 1..NumSlugs
Languages == {"it", "en"}
SettingKeys == 1..NumKeys
SettingValues == 1..NumValues

\* the timestamps request bodies carry: a scheduledAt the cron job can reach,
\* a publishedAt in the past
SchedTimes == 1..MaxTime
PastTimes == {0}

\* a nullable DateTime column holding NULL; an optional body field left out
Null == 0 - 1
Absent == 0 - 2

VARIABLES
    clock,      \* what new Date() returns
    posts,      \* the blog_posts table, by id
    sweeps,     \* the executions of the cron callback that may be in flight
    notified,   \* per post, how often revalidateCache was called for it
    edits,      \* PUT and DELETE requests served so far
    settings,   \* the admin_settings table, by key
    res,        \* the response to the request observed last
    wall,       \* what Date.now() returns, in ms
    rateLimitMap,   \* per IP, the window of the rate limit and its count
    noCleanup,  \* rateLimitMap as it would be had the cleanup never run
    events,     \* the rows of analytics_events stored so far
    track,      \* the response to the last POST /api/analytics/track
    requests,   \* POST /api/analytics/track requests counted by a budget
    files,      \* the files of the uploads directory
    uploaded,   \* uploads stored by multer so far
    upload      \* the response to the last POST /api/upload

postsVars == <<clock, posts, sweeps, notified, edits, settings, res>>

analyticsVars == <<wall, rateLimitMap, noCleanup, events, track, requests>>

uploadVars == <<files, uploaded, upload>>

vars == <<postsVars, analyticsVars, uploadVars>>

\* ------------------------------------------------------------ blog_posts
NoPost ==
    [exists |-> FALSE, slug |-> 0, language |-> "none", published |-> FALSE,
     publishedAt |-> Null, scheduledAt |-> Null, createdAt |-> Null,
     updatedAt |-> Null]

\* the where clause without published: false
DueWhere_AnyStatus(row, now) ==
    /\ row.exists
    /\ row.scheduledAt # Null
    /\ row.scheduledAt <= now

\* the where clause with NULL read as the earliest time
DueWhere_NullIsPast(row, now) ==
    /\ row.exists
    /\ row.published = FALSE
    /\ row.scheduledAt <= now

\* the where clause without the time bound: every scheduled post
DueWhere_AnyTime(row, now) ==
    /\ row.exists
    /\ row.published = FALSE
    /\ row.scheduledAt # Null

\* the where clause with equals in place of lte
DueWhere_Equals(row, now) ==
    /\ row.exists
    /\ row.published = FALSE
    /\ row.scheduledAt = now

\* where: { published: false, scheduledAt: { lte: now } }; lte never matches NULL
DueWhere(row, now) ==
    /\ row.exists
    /\ row.published = FALSE
    /\ row.scheduledAt # Null
    /\ row.scheduledAt <= now

\* an update that succeeds when no row has the id
UpdateWhere_NoRowNeeded(row, snap, now) == TRUE

\* where: { id: post.id }
UpdateWhere(row, snap, now) == row.exists

\* the update data without scheduledAt: null
PublishData_KeepsSchedule(row, now) ==
    [row EXCEPT !.published = TRUE, !.publishedAt = now, !.updatedAt = now]

\* the update data with new Date() taken again at each update
PublishData_OwnClock(row, now) ==
    [row EXCEPT !.published = TRUE, !.publishedAt = clock,
                !.scheduledAt = Null, !.updatedAt = clock]

\* data: { published: true, publishedAt: now, scheduledAt: null, updatedAt: now }
PublishData(row, now) ==
    [row EXCEPT !.published = TRUE, !.publishedAt = now,
                !.scheduledAt = Null, !.updatedAt = now]

\* the rows findMany returns, in any order (the query has no orderBy)
Orderings(S) ==
    {q \in [1..Cardinality(S) -> S] : \A i, j \in 1..Cardinality(S) : q[i] = q[j] => i = j}

Snapshot(id) ==
    [id |-> id, slug |-> posts[id].slug, language |-> posts[id].language,
     scheduledAt |-> posts[id].scheduledAt]

FindDue(now) ==
    {[i \in DOMAIN q |-> Snapshot(q[i])] :
        q \in Orderings({id \in PostIds : DueWhere(posts[id], now)})}

\* ------------------------------------------------------------- cron job
NoCall == [slug |-> 0, language |-> "none"]

IdleSweep ==
    [pc |-> "idle", now |-> 0, postsToPublish |-> <<>>, i |-> 0, error |-> "none",
     last |-> "none", call |-> NoCall]

\* the callback has returned, or it waits for a fetch that never settles
Finished(s) == sweeps[s].pc \in {"idle", "done", "hung"}

\* the callback has returned: its locals are gone, what is left is the error
\* its catch block logged, if any
Returned(error) == [IdleSweep EXCEPT !.pc = "done", !.error = error]

\* the callback without its try/catch: the rejection leaves the callback
\* unhandled
Caught_Escapes(sw, error) == [IdleSweep EXCEPT !.pc = "escaped", !.error = error]

\* catch (error) { console.error(...) } around the whole callback
Caught(sw, error) == Returned(error)

Failed(sw) == sw.error # "none"

\* the for loop moves to the next post, or the callback returns
NextPost(sw) ==
    IF sw.i < Len(sw.postsToPublish)
      THEN [sw EXCEPT !.pc = "update", !.i = sw.i + 1, !.call = NoCall]
      ELSE Returned("none")

\* const now = new Date(); await findMany(...); if (postsToPublish.length > 0)
SweepQuery(s, now) ==
    /\ Finished(s)
    /\ \/ \E b \in FindDue(now) :
            sweeps' = [sweeps EXCEPT ![s] =
                IF Len(b) > 0
                  THEN [IdleSweep EXCEPT !.pc = "update", !.now = now, !.postsToPublish = b, !.i = 1]
                  ELSE Returned("none")]
       \/ sweeps' = [sweeps EXCEPT ![s] = Caught(IdleSweep, "findMany")]
    /\ UNCHANGED <<posts, notified, edits, settings, res>>
    /\ UNCHANGED <<analyticsVars, uploadVars>>

\* node-cron fires the callback once a minute, whether or not an earlier
\* execution is still running
Cron(s) ==
    /\ clock < MaxTime
    /\ clock' = clock + 1
    /\ SweepQuery(s, clock')

\* the call made with the first row of the batch, whatever the loop is at
NotifierArgs_FirstPost(sw) ==
    [slug |-> sw.postsToPublish[1].slug, language |-> sw.postsToPublish[1].language]

\* revalidateCache(post.slug, post.language), post being the row of the loop
NotifierArgs(sw) ==
    [slug |-> sw.postsToPublish[sw.i].slug, language |-> sw.postsToPublish[sw.i].language]

\* await prisma.blog_posts.update(...), then the call of revalidateCache
SweepUpdate(s) ==
    LET sw == sweeps[s]
        snap == sw.postsToPublish[sw.i]
    IN  /\ sw.pc = "update"
        /\ \/ /\ UpdateWhere(posts[snap.id], snap, sw.now)
              /\ posts' = [posts EXCEPT ![snap.id] = PublishData(@, sw.now)]
              /\ notified' = [notified EXCEPT ![snap.id] = @ + 1]
              /\ sweeps' = [sweeps EXCEPT ![s].pc = "notify", ![s].call = NotifierArgs(sw)]
           \/ /\ sweeps' = [sweeps EXCEPT ![s] = Caught(sw, "update")]
              /\ UNCHANGED <<posts, notified>>
        /\ UNCHANGED <<clock, edits, settings, res>>
        /\ UNCHANGED <<analyticsVars, uploadVars>>

\* the outcome of the fetch: response.ok, another status, a rejection
Outcomes == {"ok", "status", "threw"}

\* revalidateCache without its try/catch: a rejected fetch reaches the
\* catch block of the callback
revalidateCache_Rethrows(sw, outcome) ==
    IF outcome = "threw" THEN Caught(sw, "fetch") ELSE NextPost([sw EXCEPT !.last = outcome])

\* if (response.ok) log else warn; catch (error) warn: nothing is thrown

revalidateCache(sw, outcome) == NextPost([sw EXCEPT !.last = outcome])

\* await revalidateCache(post.slug, post.language) returns
NotifyReturn(s) ==
    /\ sweeps[s].pc = "notify"
    /\ \E outcome \in Outcomes :
         sweeps' = [sweeps EXCEPT ![s] = revalidateCache(sweeps[s], outcome)]
    /\ UNCHANGED <<clock, posts, notified, edits, settings, res>>
    /\ UNCHANGED <<analyticsVars, uploadVars>>

\* the fetch has no timeout: the revalidation endpoint may never answer
NotifyHang(s) ==
    /\ sweeps[s].pc = "notify"
    /\ sweeps' = [sweeps EXCEPT ![s] = [IdleSweep EXCEPT !.pc = "hung"]]
    /\ UNCHANGED <<clock, posts, notified, edits, settings, res>>
    /\ UNCHANGED <<analyticsVars, uploadVars>>

\* ------------------------------------------------------------ the routes
\* the three publication states of a stored post
IsDraft(row) == row.published = FALSE /\ row.scheduledAt = Null

IsScheduled(row) == row.published = FALSE /\ row.scheduledAt # Null

IsFullyPublished(row) ==
    row.published = TRUE /\ row.publishedAt # Null /\ row.scheduledAt = Null

\* a table without the unique constraint on (slug, language)
KeyTaken_Never(slug, language, id) == FALSE

\* @@unique([slug, language]): another row holds the pair
KeyTaken(slug, language, id) ==
    \E other \in PostIds \ {id} :
       /\ posts[other].exists
       /\ posts[other].slug = slug
       /\ posts[other].language = language

\* POST /api/posts
\* a value of the body that JavaScript reads as false: undefined or null
Falsy(value) == value \in {Absent, Null}

\* the create data with the publishedAt of the body stored as it came
CreateData_KeepsPublishedAt(slug, language, published, publishedAt, scheduledAt) ==
    [exists |-> TRUE,
     slug |-> slug,
     language |-> language,
     published |-> published,
     publishedAt |-> IF ~Falsy(publishedAt) THEN publishedAt
                     ELSE IF published THEN clock ELSE Null,
     scheduledAt |-> IF scheduledAt # Absent THEN scheduledAt ELSE Null,
     createdAt |-> clock,
     updatedAt |-> clock]

CreateData(slug, language, published, publishedAt, scheduledAt) ==
    [exists |-> TRUE,
     slug |-> slug,
     language |-> language,
     published |-> published,
     publishedAt |-> IF published
                       THEN (IF ~Falsy(publishedAt) THEN publishedAt ELSE clock)
                       ELSE Null,
     scheduledAt |-> IF scheduledAt # Absent THEN scheduledAt ELSE Null,
     createdAt |-> clock,
     updatedAt |-> clock]

CreatePost(id) ==
    /\ ~posts[id].exists
    /\ \E slug \in Slugs, language \in Languages, published \in BOOLEAN,
          publishedAt \in {Absent} \cup PastTimes, scheduledAt \in {Absent} \cup SchedTimes :
         /\ ~KeyTaken(slug, language, id)
         /\ posts' = [posts EXCEPT ![id] =
                         CreateData(slug, language, published, publishedAt, scheduledAt)]
    /\ UNCHANGED <<clock, sweeps, notified, edits, settings, res>>
    /\ UNCHANGED <<analyticsVars, uploadVars>>

\* PUT /api/posts/:id
Field(body, name, old) == IF body[name] = Absent THEN old ELSE body[name]

\* the body passed to prisma as it came
StripProtected_Nothing(body) == body

\* delete updateData.id; delete updateData.createdAt
StripProtected(body) == [body EXCEPT !.id = Absent, !.createdAt = Absent]

\* data: updateData, the fields of the body that are left
UpdateData(row, body) ==
    LET updateData == StripProtected(body)
    IN  [row EXCEPT !.slug = Field(updateData, "slug", @),
                    !.language = IF updateData.language = "absent" THEN @ ELSE updateData.language,
                    !.published = IF updateData.published = "absent" THEN @
                                  ELSE updateData.published = "true",
                    !.publishedAt = Field(updateData, "publishedAt", @),
                    !.scheduledAt = Field(updateData, "scheduledAt", @),
                    !.createdAt = Field(updateData, "createdAt", @)]

\* the id the row has after the update
UpdatedId(id, body) == Field(StripProtected(body), "id", id)

\* the table after prisma.blog_posts.update({ where: { id }, data })
Updated(table, id, body) ==
    [k \in PostIds |->
       IF k = UpdatedId(id, body) THEN UpdateData(table[id], body)
       ELSE IF k = id THEN NoPost
       ELSE table[k]]

\* the update would break a unique constraint: the key, or the id
UpdateRefused(id, body) ==
    \/ KeyTaken(UpdateData(posts[id], body).slug, UpdateData(posts[id], body).language, id)
    \/ UpdatedId(id, body) # id /\ posts[UpdatedId(id, body)].exists

Bodies ==
    [id : {Absent} \cup PostIds,
     createdAt : {Absent, MaxTime},
     slug : {Absent} \cup Slugs,
     language : {"absent"} \cup Languages,
     published : {"absent", "true", "false"},
     publishedAt : {Absent, Null, clock},
     scheduledAt : {Absent, Null} \cup SchedTimes]

\* the edits that run beside the cron job leave slug and language alone and
\* bring neither id nor createdAt
EditBodies ==
    {body \in Bodies :
        /\ body.slug = Absent /\ body.language = "absent"
        /\ body.id = Absent /\ body.createdAt = Absent}

UpdatePost(id) ==
    /\ posts[id].exists
    /\ edits < MaxEdits
    /\ edits' = edits + 1
    /\ \E body \in EditBodies :
         /\ ~UpdateRefused(id, body)
         /\ posts' = Updated(posts, id, body)
    /\ UNCHANGED <<clock, sweeps, notified, settings, res>>
    /\ UNCHANGED <<analyticsVars, uploadVars>>

\* DELETE /api/posts/:id
DeletePost(id) ==
    /\ posts[id].exists
    /\ edits < MaxEdits
    /\ edits' = edits + 1
    /\ posts' = [posts EXCEPT ![id] = NoPost]
    /\ UNCHANGED <<clock, sweeps, notified, settings, res>>
    /\ UNCHANGED <<analyticsVars, uploadVars>>

\* ------------------------------------------------- the routes, observed
\* the Authorization header of a request: none, one that does not start with
\* 'Bearer ', a bearer token that is expired, one that does not verify, and
\* one that verifies
AuthHeaders == {"none", "basic", "expired", "invalid", "valid"}

NoObject == [key \in {} |-> Absent]

\* a response, with what the request asked beside it
NoResponse ==
    [op |-> "none", auth |-> "none", status |-> 0, error |-> "",
     id |-> Absent, slug |-> Absent, lang |-> "absent", published |-> "absent",
     key |-> Absent, value |-> Absent, data |-> <<>>, object |-> NoObject,
     body |-> NoObject]

Response(op, auth, status, error) ==
    [NoResponse EXCEPT !.op = op, !.auth = auth, !.status = status, !.error = error]

\* verifyToken that lets every request through
verifyToken_LetsAllThrough(authHeader) == "next"

\* verifyToken of the settings router: the error of its 401, or "next"
verifyToken(authHeader) ==
    IF authHeader \in {"none", "basic"} THEN "No token provided"
    ELSE IF authHeader = "expired" THEN "Token expired"
    ELSE IF authHeader = "invalid" THEN "Invalid token"
    ELSE "next"

\* authMiddleware of ../middleware/auth: a request without a valid bearer
\* token gets 401 before the handler runs
authMiddleware(authHeader) ==
    IF authHeader = "valid" THEN "next" ELSE "Unauthorized"

\* time passes between two requests
Tick ==
    /\ clock < MaxTicks
    /\ clock' = clock + 1
    /\ UNCHANGED <<posts, sweeps, notified, edits, settings, res>>
    /\ UNCHANGED <<analyticsVars, uploadVars>>

\* where clause of GET /api/posts without the scheduledAt: null of drafts
ListWhere_FalseIsUnpublished(row, lang, published) ==
    /\ row.exists
    /\ lang = "all" \/ row.language = (IF lang = "absent" THEN "it" ELSE lang)
    /\ LET p == IF published = "absent" THEN "true" ELSE published
       IN  CASE p = "scheduled" -> row.published = FALSE /\ row.scheduledAt # Null
             [] p = "all" -> TRUE
             [] OTHER -> row.published = (p = "true")

\* where clause of GET /api/posts with every post by default
ListWhere_DefaultAll(row, lang, published) ==
    /\ row.exists
    /\ lang = "all" \/ row.language = (IF lang = "absent" THEN "it" ELSE lang)
    /\ LET p == IF published = "absent" THEN "all" ELSE published
       IN  CASE p = "scheduled" -> row.published = FALSE /\ row.scheduledAt # Null
             [] p = "all" -> TRUE
             [] OTHER -> /\ row.published = (p = "true")
                         /\ p = "false" => row.scheduledAt = Null

\* where clause of GET /api/posts: lang = 'it' and published = 'true' by default
ListWhere(row, lang, published) ==
    /\ row.exists
    /\ lang = "all" \/ row.language = (IF lang = "absent" THEN "it" ELSE lang)
    /\ LET p == IF published = "absent" THEN "true" ELSE published
       IN  CASE p = "scheduled" -> row.published = FALSE /\ row.scheduledAt # Null
             [] p = "all" -> TRUE
             [] OTHER -> /\ row.published = (p = "true")
                         /\ p = "false" => row.scheduledAt = Null

\* orderBy: { createdAt: 'desc' }; rows of one createdAt come in any order
ByCreatedDesc(S) ==
    {q \in Orderings(S) :
        \A i, j \in DOMAIN q : i < j => posts[q[i]].createdAt >= posts[q[j]].createdAt}

\* orderBy: { scheduledAt: 'asc' }
ByScheduledAsc(S) ==
    {q \in Orderings(S) :
        \A i, j \in DOMAIN q : i < j => posts[q[i]].scheduledAt <= posts[q[j]].scheduledAt}

LangParams == {"absent", "all"} \cup Languages

PublishedParams == {"absent", "true", "false", "scheduled", "all", "other"}

\* GET /api/posts
GetPosts ==
    /\ \E lang \in LangParams, published \in PublishedParams :
         \E q \in ByCreatedDesc({id \in PostIds : ListWhere(posts[id], lang, published)}) :
            res' = [Response("GET /api/posts", "none", 200, "")
                      EXCEPT !.lang = lang, !.published = published, !.data = q]
    /\ UNCHANGED <<clock, posts, sweeps, notified, edits, settings>>
    /\ UNCHANGED <<analyticsVars, uploadVars>>

\* GET /api/posts/scheduled/list
GetScheduledList(auth) ==
    /\   IF authMiddleware(auth) # "next"
           THEN res' = Response("GET /api/posts/scheduled/list", auth, 401, authMiddleware(auth))
           ELSE \E q \in ByScheduledAsc({id \in PostIds : posts[id].exists /\ IsScheduled(posts[id])}) :
                   res' = [Response("GET /api/posts/scheduled/list", auth, 200, "") EXCEPT !.data = q]
    /\ UNCHANGED <<clock, posts, sweeps, notified, edits, settings>>
    /\ UNCHANGED <<analyticsVars, uploadVars>>

\* GET /api/posts/:slugOrId without the check of post.published
Visible_Always(row, auth) == TRUE

\* if (!post.published && !req.headers.authorization) 404
Visible(row, auth) == row.published \/ auth # "none"

\* GET /api/posts/:slugOrId: a UUID is looked up by id, anything else by
\* slug and lang (lang = 'it' by default)
GetPost(auth) ==
    /\ \E id \in {Absent} \cup PostIds, slug \in Slugs, lang \in {"absent"} \cup Languages :
         LET found == IF id # Absent
                        THEN {f \in PostIds : f = id /\ posts[f].exists}
                        ELSE {f \in PostIds :
                                /\ posts[f].exists
                                /\ posts[f].slug = slug
                                /\ posts[f].language = (IF lang = "absent" THEN "it" ELSE lang)}
             asked == [Response("GET /api/posts/:slugOrId", auth, 200, "")
                         EXCEPT !.id = id,
                                !.slug = IF id # Absent THEN Absent ELSE slug,
                                !.lang = IF id # Absent THEN "absent" ELSE lang]
         IN  /\ id # Absent => (slug = 1 /\ lang = "absent")
             /\ IF found = {}
                  THEN res' = [asked EXCEPT !.status = 404, !.error = "Post not found"]
                  ELSE \E f \in found :
                         IF ~Visible(posts[f], auth)
                           THEN res' = [asked EXCEPT !.status = 404, !.error = "Post not found"]
                           ELSE res' = [asked EXCEPT !.data = <<f>>]
    /\ UNCHANGED <<clock, posts, sweeps, notified, edits, settings>>
    /\ UNCHANGED <<analyticsVars, uploadVars>>

\* the bodies of the observed PUT requests: the key of the post or its
\* publication fields, publishedAt left out, scheduledAt the last minute if
\* there is one, neither id nor createdAt
PutBodies ==
    {body \in Bodies :
        /\ body.publishedAt = Absent
        /\ body.scheduledAt \in {Absent, Null, MaxTime}
        /\ body.id = Absent /\ body.createdAt = Absent
        /\ \/ body.slug = Absent /\ body.language = "absent"
           \/ body.published = "absent" /\ body.scheduledAt = Absent}

\* the bodies that bring an id and a createdAt, and nothing else
ProtectedBodies ==
    {body \in Bodies :
        /\ body.id # Absent /\ body.createdAt # Absent
        /\ body.slug = Absent /\ body.language = "absent" /\ body.published = "absent"
        /\ body.publishedAt = Absent /\ body.scheduledAt = Absent}

\* the publishedAt of the observed POST requests
PostPublishedAts == {Absent, Null} \cup PastTimes

\* POST /api/posts, its response kept; without an id in the body the row
\* gets a fresh one; publishedAts are the values the body may bring
PostPostsOf(auth, publishedAts) ==
    /\ LET asked == Response("POST /api/posts", auth, 201, "")
       IN  IF authMiddleware(auth) # "next"
             THEN /\ res' = [asked EXCEPT !.status = 401, !.error = authMiddleware(auth)]
                  /\ UNCHANGED posts
             ELSE \E id \in {Absent} \cup PostIds, slug \in {Absent} \cup Slugs,
                     language \in Languages, published \in BOOLEAN,
                     publishedAt \in publishedAts, scheduledAt \in {Absent, MaxTime} :
                    IF slug = Absent
                      THEN /\ res' = [asked EXCEPT !.status = 400, !.lang = language,
                                        !.error = "Missing required fields"]
                           /\ UNCHANGED posts
                      ELSE \E new \in (IF id # Absent THEN {id}
                                       ELSE {f \in PostIds : ~posts[f].exists}) :
                             IF posts[new].exists \/ KeyTaken(slug, language, new)
                               THEN /\ res' = [asked EXCEPT
                                                 !.status = 409, !.slug = slug, !.lang = language,
                                                 !.error = "Post with this slug and language already exists"]
                                    /\ UNCHANGED posts
                               ELSE /\ posts' = [posts EXCEPT ![new] =
                                                   CreateData(slug, language, published, publishedAt, scheduledAt)]
                                    /\ res' = [asked EXCEPT !.slug = slug, !.lang = language,
                                                           !.data = <<new>>,
                                                           !.body = [published |-> published,
                                                                     publishedAt |-> publishedAt]]
    /\ UNCHANGED <<clock, sweeps, notified, edits, settings>>
    /\ UNCHANGED <<analyticsVars, uploadVars>>

\* POST /api/posts with no publishedAt in the body
PostPosts(auth) == PostPostsOf(auth, {Absent})

\* PUT /api/posts/:id, its response kept; bodies are the bodies it may get
PutPostsOf(auth, bodies) ==
    /\ LET asked == Response("PUT /api/posts/:id", auth, 200, "")
       IN  IF authMiddleware(auth) # "next"
             THEN /\ res' = [asked EXCEPT !.status = 401, !.error = authMiddleware(auth)]
                  /\ UNCHANGED <<posts, edits>>
             ELSE \E id \in PostIds, body \in bodies :
                    LET data == UpdateData(posts[id], body)
                    IN  IF ~posts[id].exists
                          THEN /\ res' = [asked EXCEPT !.id = id, !.status = 404,
                                                         !.error = "Post not found"]
                               /\ UNCHANGED <<posts, edits>>
                        ELSE IF UpdateRefused(id, body)
                          THEN /\ res' = [asked EXCEPT !.id = id, !.status = 500,
                                                         !.error = "Failed to update post"]
                               /\ UNCHANGED <<posts, edits>>
                        ELSE /\ edits < MaxEdits
                             /\ edits' = edits + 1
                             /\ posts' = Updated(posts, id, body)
                             /\ res' = [asked EXCEPT !.id = id, !.data = <<id>>,
                                                    !.body = [id |-> body.id,
                                                              createdAt |-> body.createdAt]]
    /\ UNCHANGED <<clock, sweeps, notified, settings>>
    /\ UNCHANGED <<analyticsVars, uploadVars>>

\* PUT /api/posts/:id with a body of the editor
PutPosts(auth) == PutPostsOf(auth, PutBodies)

\* DELETE /api/posts/:id, its response kept
DeletePosts(auth) ==
    /\ LET asked == Response("DELETE /api/posts/:id", auth, 200, "")
       IN  IF authMiddleware(auth) # "next"
             THEN /\ res' = [asked EXCEPT !.status = 401, !.error = authMiddleware(auth)]
                  /\ UNCHANGED <<posts, edits>>
             ELSE \E id \in PostIds :
                    IF ~posts[id].exists
                      THEN /\ res' = [asked EXCEPT !.id = id, !.status = 404,
                                                     !.error = "Post not found"]
                           /\ UNCHANGED <<posts, edits>>
                      ELSE /\ edits < MaxEdits
                           /\ edits' = edits + 1
                           /\ posts' = [posts EXCEPT ![id] = NoPost]
                           /\ res' = [asked EXCEPT !.id = id]
    /\ UNCHANGED <<clock, sweeps, notified, settings>>
    /\ UNCHANGED <<analyticsVars, uploadVars>>

\* ------------------------------------------------------------- settings
\* a write that replaces the whole table by the one row
Upsert_ReplacesTable(key, value) ==
    [k \in SettingKeys |-> IF k = key THEN value ELSE Absent]

\* upsert({ where: { key }, update: { value }, create: { key, value } })
Upsert(key, value) == [settings EXCEPT ![key] = value]

\* GET /api/settings/:key
GetSetting(auth) ==
    /\ LET asked == Response("GET /api/settings/:key", auth, 200, "")
       IN  IF verifyToken(auth) # "next"
             THEN res' = [asked EXCEPT !.status = 401, !.error = verifyToken(auth)]
             ELSE \E key \in SettingKeys :
                    res' = [asked EXCEPT !.key = key, !.value =
                              IF settings[key] # Absent THEN settings[key] ELSE Null]
    /\ UNCHANGED <<clock, posts, sweeps, notified, edits, settings>>
    /\ UNCHANGED <<analyticsVars, uploadVars>>

\* PUT /api/settings/:key
PutSetting(auth) ==
    /\ LET asked == Response("PUT /api/settings/:key", auth, 200, "")
       IN  IF verifyToken(auth) # "next"
             THEN /\ res' = [asked EXCEPT !.status = 401, !.error = verifyToken(auth)]
                  /\ UNCHANGED settings
             ELSE \E key \in SettingKeys, value \in {Absent} \cup SettingValues :
                    IF value = Absent
                      THEN /\ res' = [asked EXCEPT !.key = key, !.status = 400,
                                                     !.error = "Value is required"]
                           /\ UNCHANGED settings
                      ELSE /\ settings' = Upsert(key, value)
                           /\ res' = [asked EXCEPT !.key = key, !.value = value]
    /\ UNCHANGED <<clock, posts, sweeps, notified, edits>>
    /\ UNCHANGED <<analyticsVars, uploadVars>>

\* DELETE /api/settings/:key
DeleteSetting(auth) ==
    /\ LET asked == Response("DELETE /api/settings/:key", auth, 200, "")
       IN  IF verifyToken(auth) # "next"
             THEN /\ res' = [asked EXCEPT !.status = 401, !.error = verifyToken(auth)]
                  /\ UNCHANGED settings
             ELSE \E key \in SettingKeys :
                    IF settings[key] = Absent
                      THEN /\ res' = [asked EXCEPT !.key = key, !.status = 404,
                                                     !.error = "Setting not found"]
                           /\ UNCHANGED settings
                      ELSE /\ settings' = [settings EXCEPT ![key] = Absent]
                           /\ res' = [asked EXCEPT !.key = key]
    /\ UNCHANGED <<clock, posts, sweeps, notified, edits>>
    /\ UNCHANGED <<analyticsVars, uploadVars>>

\* GET /api/settings
GetSettings(auth) ==
    /\   LET asked == Response("GET /api/settings", auth, 200, "")
         IN  IF verifyToken(auth) # "next"
               THEN res' = [asked EXCEPT !.status = 401, !.error = verifyToken(auth)]
               ELSE res' = [asked EXCEPT !.object =
                              [k \in {key \in SettingKeys : settings[key] # Absent} |-> settings[k]]]
    /\ UNCHANGED <<clock, posts, sweeps, notified, edits, settings>>
    /\ UNCHANGED <<analyticsVars, uploadVars>>

\* ------------------------------------------------------------ analytics
RATE_LIMIT_WINDOW_MS == 60000

RATE_LIMIT_MAX == 100

\* the clock of the analytics router moves by half a window
HalfWindow == RATE_LIMIT_WINDOW_MS \div 2

\* an IP address, by its four numbers
EXCLUDED_IPS == {<<93, 41, 245, 152>>}

\* /^100\.(\d+)\./ and 64 <= second number <= 127
isTailscaleIP(ip) == ip[1] = 100 /\ ip[2] >= 64 /\ ip[2] <= 127

\* what getClientIP returns: two clients, the second just outside the
\* Tailscale range, the excluded address and a Tailscale address
ClientIPs == {<<203, 0, 113, 7>>, <<100, 63, 0, 1>>}

IPs == ClientIPs \cup EXCLUDED_IPS \cup {<<100, 100, 1, 1>>}

\* the IPs of the specification that counts one client up to the limit
RateIPs == {<<203, 0, 113, 7>>}

\* a user agent with the headers of its request, by what isBot looks at
Agents ==
    {[name |-> "firefox", short |-> FALSE, pattern |-> FALSE, headless |-> FALSE,
      chrome |-> FALSE, acceptLanguage |-> TRUE],
     [name |-> "chrome", short |-> FALSE, pattern |-> FALSE, headless |-> FALSE,
      chrome |-> TRUE, acceptLanguage |-> TRUE],
     [name |-> "chrome without accept-language", short |-> FALSE, pattern |-> FALSE,
      headless |-> FALSE, chrome |-> TRUE, acceptLanguage |-> FALSE],
     [name |-> "curl", short |-> FALSE, pattern |-> TRUE, headless |-> FALSE,
      chrome |-> FALSE, acceptLanguage |-> FALSE],
     [name |-> "", short |-> TRUE, pattern |-> FALSE, headless |-> FALSE,
      chrome |-> FALSE, acceptLanguage |-> FALSE]}

isHeadlessBrowser(agent) ==
    IF agent.headless THEN TRUE
    ELSE IF agent.acceptLanguage THEN FALSE
    ELSE agent.chrome

isBot(agent) == agent.short \/ agent.pattern \/ isHeadlessBrowser(agent)

NoRecord == [count |-> 0, resetTime |-> Null]

\* isRateLimited that limits from the RATE_LIMIT_MAX-th request on
isRateLimited_AtMax(map, ip, now) ==
    IF map[ip] = NoRecord \/ now > map[ip].resetTime
      THEN [limited |-> FALSE,
            map |-> [map EXCEPT ![ip] = [count |-> 1, resetTime |-> now + RATE_LIMIT_WINDOW_MS]]]
      ELSE [limited |-> map[ip].count + 1 >= RATE_LIMIT_MAX,
            map |-> [map EXCEPT ![ip].count = @ + 1]]

\* isRateLimited whose window slides with every request
isRateLimited_Sliding(map, ip, now) ==
    IF map[ip] = NoRecord \/ now > map[ip].resetTime
      THEN [limited |-> FALSE,
            map |-> [map EXCEPT ![ip] = [count |-> 1, resetTime |-> now + RATE_LIMIT_WINDOW_MS]]]
      ELSE [limited |-> map[ip].count + 1 > RATE_LIMIT_MAX,
            map |-> [map EXCEPT ![ip] = [count |-> @.count + 1,
                                         resetTime |-> now + RATE_LIMIT_WINDOW_MS]]]

\* isRateLimited(ip) at Date.now() = now: what it returns and the map it leaves
isRateLimited(map, ip, now) ==
    IF map[ip] = NoRecord \/ now > map[ip].resetTime
      THEN [limited |-> FALSE,
            map |-> [map EXCEPT ![ip] = [count |-> 1, resetTime |-> now + RATE_LIMIT_WINDOW_MS]]]
      ELSE [limited |-> map[ip].count + 1 > RATE_LIMIT_MAX,
            map |-> [map EXCEPT ![ip].count = @ + 1]]

\* a cleanup that removes the entries whose window ends now as well
Expired_AtReset(record, now) == record # NoRecord /\ now >= record.resetTime

\* if (now > record.resetTime) rateLimitMap.delete(ip)
Expired(record, now) == record # NoRecord /\ now > record.resetTime

\* setInterval(() => { ... }, 60000)
Cleanup ==
    /\ rateLimitMap' = [ip \in IPs |->
                          IF Expired(rateLimitMap[ip], wall) THEN NoRecord ELSE rateLimitMap[ip]]
    /\ UNCHANGED <<wall, noCleanup, events, track, requests>>
    /\ UNCHANGED <<postsVars, uploadVars>>

\* time passes between two requests
Advance ==
    /\ wall < MaxWall * HalfWindow
    /\ wall' = wall + HalfWindow
    /\ UNCHANGED <<rateLimitMap, noCleanup, events, track, requests>>
    /\ UNCHANGED <<postsVars, uploadVars>>

NoAgent ==
    [name |-> "none", short |-> FALSE, pattern |-> FALSE, headless |-> FALSE,
     chrome |-> FALSE, acceptLanguage |-> FALSE]

\* a response of the track route, with what the request brought beside it
NoTrack ==
    [ip |-> <<>>, agent |-> NoAgent, hasPath |-> FALSE,
     status |-> 0, success |-> FALSE, tracked |-> FALSE, reason |-> ""]

TrackResponse(ip, status, success, tracked, reason) ==
    [NoTrack EXCEPT !.ip = ip, !.status = status, !.success = success,
                    !.tracked = tracked, !.reason = reason]

\* the handler that lets the error of the create reach Express
CreateFailed_Throws(ip) == TrackResponse(ip, 500, FALSE, FALSE, "error")

\* catch (error): res.json({ success: true, tracked: false, reason: 'error' })
CreateFailed(ip) == TrackResponse(ip, 200, TRUE, FALSE, "error")

\* the filter chain that looks at the rate limit first
IsInternal_AfterRateLimit(ip) == FALSE

\* EXCLUDED_IPS.includes(ip) || isTailscaleIP(ip)
IsInternal(ip) == ip \in EXCLUDED_IPS \/ isTailscaleIP(ip)

\* POST /api/analytics/track from ip, with the user agent and headers of
\* agent and a body with or without path; the create may throw
Track(ip, agent, hasPath) ==
    /\ IF IsInternal(ip)
         THEN /\ track' = [TrackResponse(ip, 200, TRUE, FALSE, "internal") EXCEPT !.agent = agent, !.hasPath = hasPath]
              /\ UNCHANGED <<rateLimitMap, noCleanup, events>>
         ELSE LET limit == isRateLimited(rateLimitMap, ip, wall)
              IN  /\ limit.map[ip].count <= RATE_LIMIT_MAX + MaxOver
                  /\ rateLimitMap' = limit.map
                  /\ noCleanup' = isRateLimited(noCleanup, ip, wall).map
                  /\ IF limit.limited
                       THEN /\ track' = [TrackResponse(ip, 200, TRUE, FALSE, "rate_limited") EXCEPT !.agent = agent, !.hasPath = hasPath]
                            /\ UNCHANGED events
                     ELSE IF isBot(agent)
                       THEN /\ track' = [TrackResponse(ip, 200, TRUE, FALSE, "bot") EXCEPT !.agent = agent, !.hasPath = hasPath]
                            /\ UNCHANGED events
                     ELSE IF ~hasPath
                       THEN /\ track' = [TrackResponse(ip, 400, FALSE, FALSE, "path is required") EXCEPT !.agent = agent, !.hasPath = hasPath]
                            /\ UNCHANGED events
                     ELSE \/ /\ events < MaxEvents
                             /\ events' = events + 1
                             /\ track' = [TrackResponse(ip, 200, TRUE, TRUE, "") EXCEPT !.agent = agent, !.hasPath = hasPath]
                          \/ /\ track' = [CreateFailed(ip) EXCEPT !.agent = agent, !.hasPath = hasPath]
                             /\ UNCHANGED events
    /\ UNCHANGED wall
    /\ UNCHANGED <<postsVars, uploadVars>>

\* --------------------------------------------------------------- upload
\* the extensions of the uploaded files' names
Extensions == {".jpg", ".jpeg", ".png", ".gif", ".webp", ".WEBP", ".PNG", ".txt"}

\* toLowerCase, and the i flag of the regular expression
Lower(ext) == IF ext = ".WEBP" THEN ".webp" ELSE IF ext = ".PNG" THEN ".png" ELSE ext

\* the extensions jpeg|jpg|png|gif|webp matches
ImageExts == {".jpg", ".jpeg", ".png", ".gif", ".webp"}

\* fileFilter: the extension, in lower case, and the mimetype both match
fileFilter(ext, mimeOk) == mimeOk /\ Lower(ext) \in ImageExts

\* multer's filename: the name, a suffix no other upload has, the extension
\* as the client wrote it; a path is the sequence of its parts
StoredPath(n, ext) == <<n, ext>>

\* req.file.filename.replace(/\.(jpg|jpeg|png|gif|webp)$/i, '')
BaseFilename(filename) ==
    IF Lower(filename[Len(filename)]) \in ImageExts
      THEN SubSeq(filename, 1, Len(filename) - 1)
      ELSE filename

\* webpPath, mediumPath, smallPath, thumbPath, in the order they are written
OutputPaths(filename) ==
    LET baseFilename == BaseFilename(filename)
    IN  <<baseFilename \o <<".webp">>,
          baseFilename \o <<"-medium.webp">>,
          baseFilename \o <<"-small.webp">>,
          baseFilename \o <<"-thumb.webp">>>>

NoUpload == [status |-> 0, error |-> "", original |-> <<>>, outputs |-> <<>>]

\* if (originalPath !== webpPath) fs.unlinkSync(originalPath)
KeepsOriginal(originalPath, webpPath) == originalPath = webpPath

\* POST /api/upload with a file: multer stores it if the filter takes it,
\* sharp writes the outputs one after the other and any of the calls may
\* throw; written is the number of outputs written before the handler ends.
\* sharp is given its own input as the output of the first call when the two
\* paths are equal: it refuses, or writes over the file
Upload(ext, mimeOk) ==
    /\ uploaded < MaxUploads
    /\ IF ~fileFilter(ext, mimeOk)
         THEN /\ upload' = [NoUpload EXCEPT !.status = 500,
                               !.error = "Only image files are allowed (jpeg, jpg, png, gif, webp)"]
              /\ UNCHANGED <<files, uploaded>>
         ELSE LET originalPath == StoredPath(uploaded + 1, ext)
                  outputs == OutputPaths(originalPath)
                  asked == [NoUpload EXCEPT !.original = originalPath, !.outputs = outputs]
              IN  /\ uploaded' = uploaded + 1
                  /\ \E written \in 0..4 :
                        LET made == files \cup {originalPath} \cup {outputs[i] : i \in 1..written}
                        IN  IF written < 4
                              THEN /\ files' = made
                                   /\ upload' = [asked EXCEPT !.status = 500,
                                                    !.error = "Failed to upload file"]
                              ELSE /\ files' = IF KeepsOriginal(originalPath, outputs[1])
                                                 THEN made
                                                 ELSE made \ {originalPath}
                                   /\ upload' = [asked EXCEPT !.status = 201]
    /\ UNCHANGED <<postsVars, analyticsVars>>

\* POST /api/upload without a file
UploadNothing ==
    /\ upload' = [NoUpload EXCEPT !.status = 400, !.error = "No file uploaded"]
    /\ UNCHANGED <<files, uploaded>>
    /\ UNCHANGED <<postsVars, analyticsVars>>

\* the names a DELETE may ask for: the files there are, and one there is not
Deletable == files \cup {<<0, ".webp">>}

\* DELETE /api/upload/:filename
DeleteUpload(filename) ==
    /\ IF filename \notin files
         THEN /\ upload' = [NoUpload EXCEPT !.status = 404, !.error = "File not found"]
              /\ UNCHANGED files
         ELSE /\ files' = files \ {filename}
              /\ upload' = [NoUpload EXCEPT !.status = 200]
    /\ UNCHANGED uploaded
    /\ UNCHANGED <<postsVars, analyticsVars>>

\* ------------------------------------------------------- specifications
PostsInit ==
    /\ clock = 0
    /\ posts = [id \in PostIds |-> NoPost]
    /\ sweeps = [s \in SweepIds |-> IdleSweep]
    /\ notified = [id \in PostIds |-> 0]
    /\ edits = 0
    /\ settings = [key \in SettingKeys |-> Absent]
    /\ res = NoResponse

AnalyticsInit ==
    /\ wall = 0
    /\ rateLimitMap = [ip \in IPs |-> NoRecord]
    /\ noCleanup = [ip \in IPs |-> NoRecord]
    /\ events = 0
    /\ track = NoTrack
    /\ requests = 0

UploadInit ==
    /\ files = {}
    /\ uploaded = 0
    /\ upload = NoUpload

Init == PostsInit /\ AnalyticsInit /\ UploadInit

Next ==
    \/ \E s \in SweepIds : Cron(s)
    \/ \E s \in SweepIds : SweepUpdate(s)
    \/ \E s \in SweepIds : NotifyReturn(s)
    \/ \E s \in SweepIds : NotifyHang(s)
    \/ \E id \in PostIds : CreatePost(id)
    \/ \E id \in PostIds : UpdatePost(id)
    \/ \E id \in PostIds : DeletePost(id)

Spec == Init /\ [][Next]_vars

\* the cron job and new posts alone: no editor changes or deletes a post
NextSweep ==
    \/ \E s \in SweepIds : Cron(s)
    \/ \E s \in SweepIds : SweepUpdate(s)
    \/ \E s \in SweepIds : NotifyReturn(s)
    \/ \E s \in SweepIds : NotifyHang(s)
    \/ \E id \in PostIds : CreatePost(id)

SweepSpec == Init /\ [][NextSweep]_vars

\* as SweepSpec, and every execution of the callback returns before the next
\* one starts
AllReturned == \A s \in SweepIds : sweeps[s].pc \in {"idle", "done"}

SeqCron(s) == AllReturned /\ Cron(s)

NextSeq ==
    \/ \E s \in SweepIds : SeqCron(s)
    \/ \E s \in SweepIds : SweepUpdate(s)
    \/ \E s \in SweepIds : NotifyReturn(s)
    \/ \E s \in SweepIds : NotifyHang(s)
    \/ \E id \in PostIds : CreatePost(id)

SeqSpec == Init /\ [][NextSeq]_vars

\* as SweepSpec, with the tick recurring for ever: the clock of the model
\* stops at MaxTime, the ticks do not
LiveCron(s) ==
    /\ clock' = IF clock < MaxTime THEN clock + 1 ELSE clock
    /\ SweepQuery(s, clock')

NextLive ==
    \/ \E s \in SweepIds : LiveCron(s)
    \/ \E s \in SweepIds : SweepUpdate(s)
    \/ \E s \in SweepIds : NotifyReturn(s)
    \/ \E s \in SweepIds : NotifyHang(s)
    \/ \E id \in PostIds : CreatePost(id)

\* execution s has its update of post id applied
Publishes(s, id) ==
    /\ sweeps[s].pc = "update"
    /\ sweeps[s].postsToPublish[sweeps[s].i].id = id
    /\ SweepUpdate(s)
    /\ sweeps'[s].pc = "notify"

\* the tick recurs and its query is answered; the database answers every
\* update, and the updates of a post do not fail for ever; a fetch settles
\* or never does
LiveFairness ==
    /\ WF_vars(\E s \in SweepIds : LiveCron(s) /\ ~Failed(sweeps'[s]))
    /\ \A s \in SweepIds : WF_vars(SweepUpdate(s))
    /\ \A s \in SweepIds : WF_vars(NotifyReturn(s) \/ NotifyHang(s))
    /\ \A id \in PostIds : SF_vars(\E s \in SweepIds : Publishes(s, id))

LiveSpec == Init /\ [][NextLive]_vars /\ LiveFairness

\* the posts router, its responses kept, beside the passing of time
NextPosts ==
    \/ Tick
    \/ PostPosts("valid")
    \/ PutPosts("valid")
    \/ DeletePosts("valid")
    \/ GetPosts
    \/ \E auth \in AuthHeaders : GetPost(auth)
    \/ \E auth \in AuthHeaders : GetScheduledList(auth)

PostsSpec == Init /\ [][NextPosts]_vars

\* the protected routes, with and without a valid token
NextApi ==
    \/ \E auth \in AuthHeaders : PostPosts(auth)
    \/ \E auth \in AuthHeaders : PutPosts(auth)
    \/ \E auth \in AuthHeaders : DeletePosts(auth)
    \/ \E auth \in AuthHeaders : GetSetting(auth)
    \/ \E auth \in AuthHeaders : PutSetting(auth)
    \/ \E auth \in AuthHeaders : DeleteSetting(auth)
    \/ \E auth \in AuthHeaders : GetSettings(auth)

ApiSpec == Init /\ [][NextApi]_vars

\* the cron job, one execution at a time, with new posts and the PUT requests
\* that bring an id and a createdAt, their responses kept
NextWrite ==
    \/ \E s \in SweepIds : SeqCron(s)
    \/ \E s \in SweepIds : SweepUpdate(s)
    \/ \E s \in SweepIds : NotifyReturn(s)
    \/ \E id \in PostIds : CreatePost(id)
    \/ PutPostsOf("valid", ProtectedBodies)

WriteSpec == Init /\ [][NextWrite]_vars

\* POST /api/posts with and without a publishedAt, beside the passing of time
NextCreate ==
    \/ Tick
    \/ PostPostsOf("valid", PostPublishedAts)
    \/ DeletePosts("valid")

CreateSpec == Init /\ [][NextCreate]_vars

\* the upload router, with a valid token
NextUpload ==
    \/ \E ext \in Extensions, mimeOk \in BOOLEAN : Upload(ext, mimeOk)
    \/ UploadNothing
    \/ \E filename \in Deletable : DeleteUpload(filename)

UploadSpec == Init /\ [][NextUpload]_vars

\* the settings router alone
NextSettings ==
    \/ \E auth \in AuthHeaders : GetSetting(auth)
    \/ \E auth \in AuthHeaders : PutSetting(auth)
    \/ \E auth \in AuthHeaders : DeleteSetting(auth)
    \/ \E auth \in AuthHeaders : GetSettings(auth)

SettingsSpec == Init /\ [][NextSettings]_vars

\* ------------------------------------------------------------- helpers
\* one client counted from its first request up to the limit and beyond
NextRate ==
    \/ Advance
    \/ Cleanup
    \/ \E ip \in RateIPs, agent \in Agents, hasPath \in BOOLEAN :
          Track(ip, agent, hasPath) /\ UNCHANGED requests

RateSpec == Init /\ [][NextRate]_vars

\* the table some time into service: a client has no window yet, or one
\* opened at 0 that has counted up to one or two requests short of the limit
TrackInit ==
    /\ PostsInit
    /\ UploadInit
    /\ wall = 0
    /\ rateLimitMap \in [IPs -> {NoRecord} \cup
                            [count : {RATE_LIMIT_MAX - 2, RATE_LIMIT_MAX - 1},
                             resetTime : {RATE_LIMIT_WINDOW_MS}]]
    /\ \A ip \in IPs : IsInternal(ip) => rateLimitMap[ip] = NoRecord
    /\ noCleanup = rateLimitMap
    /\ events = 0
    /\ track = NoTrack
    /\ requests = 0

\* a few requests of every kind from every IP
NextTrack ==
    \/ Advance
    \/ Cleanup
    \/ \E ip \in IPs, agent \in Agents, hasPath \in BOOLEAN :
          /\ requests < MaxRequests
          /\ requests' = requests + 1
          /\ Track(ip, agent, hasPath)

TrackSpec == TrackInit /\ [][NextTrack]_vars

InFlight(s) == sweeps[s].pc \in {"update", "notify"}

BatchIds(sw) == {sw.postsToPublish[k].id : k \in DOMAIN sw.postsToPublish}

\* the step is one of execution s of the callback
StepOf(s) == sweeps'[s] # sweeps[s]

\* execution s has just had its update of the current post applied
Applied(s) == sweeps[s].pc = "update" /\ sweeps'[s].pc = "notify"

\* the update of the current post of execution s threw
UpdateThrew(s) == sweeps[s].pc = "update" /\ sweeps'[s].error = "update"

IsPublished(row) ==
    row.exists /\ row.published /\ row.publishedAt # Null /\ row.scheduledAt = Null

\* ---------------------------------------------------------------- C1
\* C1: when executions of the publish sweep overlap on the same due post,
\* one of them applies the update and the notifier is called at most once
\* for the post.  With no editor at work (SweepSpec) a post is updated and
\* notified at most once.
C1_OneUpdatePerPost == \A id \in PostIds : notified[id] <= 1

\* ---------------------------------------------------------------- C2
\* C2: the sweep's update changes a post only if the post still satisfies
\* published = false and scheduledAt <= now at the moment of the update.
C2_UpdateGuardedByDue ==
    [][\A s \in SweepIds :
         Applied(s) =>
           DueWhere(posts[sweeps[s].postsToPublish[sweeps[s].i].id], sweeps[s].now)]_vars

\* ---------------------------------------------------------------- C3
\* C3: when the update of one due post fails, the sweep goes on with the
\* remaining posts of the batch.
C3_FailureKeepsBatchGoing ==
    [][\A s \in SweepIds :
         (UpdateThrew(s) /\ sweeps[s].i < Len(sweeps[s].postsToPublish)) =>
           /\ sweeps'[s].pc = "update"
           /\ sweeps'[s].i = sweeps[s].i + 1]_vars

\* ---------------------------------------------------------------- C4
\* C4: when a sweep returns without a persistence failure, every post its
\* query selected has published = true, publishedAt set and scheduledAt null.
C4_SweepPublishesDue ==
    [][\A s \in SweepIds :
         (InFlight(s) /\ sweeps'[s].pc = "done" /\ ~Failed(sweeps'[s])) =>
           \A id \in BatchIds(sweeps[s]) : IsPublished(posts'[id])]_vars

\* a sweep, the only one that ever ran, has returned without failure after
\* publishing both posts
C4_Witness ==
    \E s \in SweepIds :
       /\ sweeps[s].pc = "done" /\ ~Failed(sweeps[s])
       /\ \A t \in SweepIds \ {s} : sweeps[t].pc = "idle"
       /\ \A id \in PostIds : IsPublished(posts[id]) /\ notified[id] = 1

\* ---------------------------------------------------------------- C5
\* C5: when the sweep runs twice one after the other with no edit in
\* between, the second query returns no post the first sweep published and
\* the notifier is never called twice for the same post.
C5_SequentialIdempotent ==
    /\ \A id \in PostIds : notified[id] <= 1
    /\ \A s \in SweepIds :
         InFlight(s) =>
           \A k \in DOMAIN sweeps[s].postsToPublish :
              (k > sweeps[s].i \/ (k = sweeps[s].i /\ sweeps[s].pc = "update")) =>
                 /\ ~posts[sweeps[s].postsToPublish[k].id].published
                 /\ notified[sweeps[s].postsToPublish[k].id] = 0

\* a second sweep has run after the first published a post, and found nothing
C5_Witness ==
    /\ clock = 2
    /\ \A s \in SweepIds : sweeps[s].pc = "done" /\ ~Failed(sweeps[s])
    /\ \E id \in PostIds : IsPublished(posts[id]) /\ posts[id].publishedAt = 1 /\ notified[id] = 1

\* ---------------------------------------------------------------- C6
\* C6: a failing notifier call is swallowed: the step in which the call for
\* post P returns, whatever its outcome, changes no post (P stays as the
\* update left it), is not caught as an error of the sweep, and takes the
\* sweep to the next post of the batch, or to its normal return after the
\* last one.
C6_NotifierFailureSwallowed ==
    [][\A s \in SweepIds :
         (sweeps[s].pc = "notify" /\ StepOf(s) /\ sweeps'[s].pc # "hung") =>
           /\ posts' = posts
           /\ ~Failed(sweeps'[s])
           /\ IF sweeps[s].i < Len(sweeps[s].postsToPublish)
                THEN /\ sweeps'[s].pc = "update"
                     /\ sweeps'[s].i = sweeps[s].i + 1
                     /\ sweeps'[s].postsToPublish = sweeps[s].postsToPublish
                ELSE sweeps'[s].pc = "done"]_vars

\* the call for the first post of a batch failed, the first post is still
\* published, and the sweep has updated and notified the second post
C6_Witness ==
    \E s \in SweepIds :
       /\ sweeps[s].pc = "notify" /\ sweeps[s].i = 2
       /\ sweeps[s].last \in {"status", "threw"}
       /\ \A k \in {1, 2} :
            /\ IsPublished(posts[sweeps[s].postsToPublish[k].id])
            /\ notified[sweeps[s].postsToPublish[k].id] = 1

\* ---------------------------------------------------------------- C7
\* C7: the notifier call does not block publication: while the call for one
\* post is outstanding and posts of the batch remain, the sweep can apply
\* the update of the next post.
C7_NotifierNonBlocking ==
    \A s \in SweepIds :
       (sweeps[s].pc = "notify" /\ sweeps[s].i < Len(sweeps[s].postsToPublish)) =>
          ENABLED SweepUpdate(s)

\* ---------------------------------------------------------------- C8
\* C8: a failed update leaves the post unpublished and due, and with the
\* tick recurring for ever, the updates of a post not failing for ever and
\* no editor changing or deleting posts, every post that is due is
\* eventually published.
C8_DueEventuallyPublished ==
    /\ [][\A s \in SweepIds : UpdateThrew(s) => posts' = posts]_vars
    /\ \A id \in PostIds : DueWhere(posts[id], clock) ~> IsPublished(posts[id])

\* the only post there is has been published by one sweep after its update
\* failed in another
C8_Witness ==
    \E id \in PostIds :
       /\ IsPublished(posts[id]) /\ notified[id] = 1
       /\ \A other \in PostIds \ {id} : ~posts[other].exists
       /\ \E s \in SweepIds : sweeps[s].pc = "done" /\ sweeps[s].error = "update"

\* C9: a post whose scheduledAt is later than the sweep's now when the sweep
\* runs its query is not selected, and the sweep changes no field of a post
\* it did not select and sends no notification for it.
C9_FuturePostUntouched ==
    [][\A s \in SweepIds :
         StepOf(s) =>
           /\ \A id \in PostIds :
                (~InFlight(s) /\ posts[id].exists /\ posts[id].scheduledAt > sweeps'[s].now)
                   => id \notin BatchIds(sweeps'[s])
           /\ \A id \in PostIds :
                (posts'[id] # posts[id] \/ notified'[id] # notified[id])
                   => id \in BatchIds(sweeps[s])]_vars

\* a sweep has published one post while another, scheduled after the sweep's
\* now, is as it was created
C9_Witness ==
    \E s \in SweepIds : \E id \in PostIds :
       /\ sweeps[s].pc = "notify" /\ edits = 0
       /\ id \notin BatchIds(sweeps[s])
       /\ posts[id].exists /\ ~posts[id].published
       /\ posts[id].scheduledAt > sweeps[s].now
       /\ posts[id].updatedAt = 0 /\ posts[id].publishedAt = Null
       /\ notified[id] = 0

\* ---------------------------------------------------------------- C10
\* C10: a post with scheduledAt = null when the sweep runs its query is not
\* selected, published or not; the sweep writes only posts it selected, so
\* it does not publish a post that was a draft at its query.
C10_NullScheduleNeverSelected ==
    [][\A s \in SweepIds :
         StepOf(s) =>
           /\ \A id \in PostIds :
                (~InFlight(s) /\ posts[id].scheduledAt = Null)
                   => id \notin BatchIds(sweeps'[s])
           /\ \A id \in PostIds :
                posts'[id] # posts[id] => id \in BatchIds(sweeps[s])]_vars

\* a sweep has run to its end past a draft, and the draft is still a draft
C10_Witness ==
    \E id \in PostIds :
       /\ edits = 0 /\ clock = MaxTime
       /\ \A s \in SweepIds : sweeps[s].pc = "done" /\ ~Failed(sweeps[s])
       /\ posts[id].exists /\ ~posts[id].published /\ posts[id].scheduledAt = Null
       /\ notified[id] = 0
       /\ \E other \in PostIds : notified[other] > 0

\* C11: in a sweep the notifier is called once for each update of the sweep
\* that applied, right after it, with the slug and the language of the post
\* updated, which the sweep had read as due; a step that applies no update
\* of a sweep calls the notifier for no post.
C11_NotifiedOncePerTransition ==
    [][/\ \A s \in SweepIds :
            Applied(s) =>
              LET sw == sweeps[s]
                  post == sw.postsToPublish[sw.i]
              IN  /\ posts'[post.id] = PublishData(posts[post.id], sw.now)
                  /\ notified' = [notified EXCEPT ![post.id] = @ + 1]
                  /\ sweeps'[s].call.slug = posts'[post.id].slug
                  /\ sweeps'[s].call.language = posts'[post.id].language
                  /\ post.scheduledAt # Null /\ post.scheduledAt <= sw.now
                  /\ \A j \in 1..(sw.i - 1) : sw.postsToPublish[j].id # post.id
       /\ (\A s \in SweepIds : ~Applied(s)) =>
              /\ notified' = notified
              /\ \A s \in SweepIds : sweeps'[s].call \in {NoCall, sweeps[s].call}
      ]_vars

\* the second post of a batch of two has been updated and its call is made
C11_Witness ==
    \E s \in SweepIds :
       /\ sweeps[s].pc = "notify"
       /\ sweeps[s].i = 2
       /\ LET post == sweeps[s].postsToPublish[2]
          IN  /\ IsPublished(posts[post.id])
              /\ notified[post.id] = 1
              /\ sweeps[s].call = [slug |-> posts[post.id].slug,
                                   language |-> posts[post.id].language]

\* C12: no failure leaves a sweep: a failing query, a failing update and a
\* failing notification all end with the callback returned or going on, the
\* error at most logged, and a returned callback never keeps a later tick
\* from starting.
C12_NoFailureEscapes ==
    /\ [][\A s \in SweepIds :
             StepOf(s) =>
               /\ sweeps'[s].pc \in {"update", "notify", "done", "hung"}
               /\ Failed(sweeps'[s]) => sweeps'[s].pc = "done"
               /\ (sweeps[s].pc = "notify" /\ sweeps'[s].pc # "hung") => ~Failed(sweeps'[s])
         ]_vars
    /\ [](\A s \in SweepIds :
             (~InFlight(s) /\ clock < MaxTime) => ENABLED Cron(s))

\* an execution whose update threw has returned, and a tick after it has
\* started an execution that is at work
C12_Witness ==
    \E s, later \in SweepIds :
       /\ sweeps[s].pc = "done"
       /\ sweeps[s].error = "update"
       /\ sweeps[later].pc = "update"
       /\ sweeps[later].now = MaxTime

\* C13: every stored post is in exactly one of Draft, Scheduled and
\* Published; a post with published = true has no scheduledAt and has a
\* publishedAt.
C13_ExactlyOneState ==
    \A id \in PostIds :
       posts[id].exists =>
         /\ Cardinality({st \in {"draft", "scheduled", "published"} :
                            \/ st = "draft" /\ IsDraft(posts[id])
                            \/ st = "scheduled" /\ IsScheduled(posts[id])
                            \/ st = "published" /\ IsFullyPublished(posts[id])}) = 1
         /\ posts[id].published = TRUE =>
               posts[id].scheduledAt = Null /\ posts[id].publishedAt # Null

\* C14: a stored post with published = true keeps published = true, whatever
\* PUT or sweep comes next.
C14_PublishedIsTerminal ==
    [][\A id \in PostIds :
          (posts[id].exists /\ posts[id].published = TRUE /\ posts'[id].exists)
             => posts'[id].published = TRUE
      ]_vars

\* the posts of a response
Range(q) == {q[i] : i \in DOMAIN q}

\* C15: no two stored posts share (slug, language), and a POST whose
\* (slug, language) is held by a stored post is answered 409 and leaves the
\* table as it was.
C15_UniqueSlugLanguage ==
    [][/\ \A a, b \in PostIds :
            (a # b /\ posts'[a].exists /\ posts'[b].exists)
               => <<posts'[a].slug, posts'[a].language>> # <<posts'[b].slug, posts'[b].language>>
       /\ (/\ res' # res
           /\ res'.op = "POST /api/posts"
           /\ res'.slug # Absent
           /\ \E id \in PostIds :
                 /\ posts[id].exists
                 /\ posts[id].slug = res'.slug
                 /\ posts[id].language = res'.lang)
             => (res'.status = 409 /\ posts' = posts)
      ]_vars

\* a POST without id has been answered 409 while one row holds its pair
\* and the other row is free
C15_Witness ==
    /\ res.op = "POST /api/posts"
    /\ res.status = 409
    /\ \E id \in PostIds :
         /\ posts[id].exists
         /\ posts[id].slug = res.slug
         /\ posts[id].language = res.lang
         /\ \A other \in PostIds \ {id} : ~posts[other].exists

\* the language GET /api/posts asked for holds the post
InLang(row, lang) == lang = "all" \/ row.language = (IF lang = "absent" THEN "it" ELSE lang)

\* C16: GET /api/posts with published=scheduled returns the posts of the
\* language with published = false and a scheduledAt, with published=false
\* those with published = false and no scheduledAt, with published=true those
\* with published = true, with published=all all of them; the scheduled list
\* returns the scheduled posts; each post is in exactly one of the first three.
C16_ListFilterPartition ==
    /\ res.op = "GET /api/posts" =>
         LET mine == {id \in PostIds : posts[id].exists /\ InLang(posts[id], res.lang)}
         IN  /\ res.published = "scheduled" =>
                   Range(res.data) = {id \in mine : IsScheduled(posts[id])}
             /\ res.published = "false" =>
                   Range(res.data) = {id \in mine : IsDraft(posts[id])}
             /\ res.published = "true" =>
                   Range(res.data) = {id \in mine : posts[id].published = TRUE}
             /\ res.published = "all" => Range(res.data) = mine
    /\ (res.op = "GET /api/posts/scheduled/list" /\ res.status = 200) =>
         Range(res.data) = {id \in PostIds : posts[id].exists /\ IsScheduled(posts[id])}
    /\ \A id \in PostIds, lang \in LangParams :
         (posts[id].exists /\ InLang(posts[id], lang)) =>
            Cardinality({p \in {"scheduled", "false", "true"} : ListWhere(posts[id], lang, p)}) = 1

\* the drafts were asked for while a draft and a scheduled post are stored:
\* the answer holds the draft alone
C16_Witness ==
    /\ res.op = "GET /api/posts"
    /\ res.published = "false"
    /\ res.lang = "all"
    /\ Len(res.data) = 1
    /\ \E id \in PostIds : posts[id].exists /\ IsScheduled(posts[id])

\* the routes of C17: the writes of the posts router and the settings router
ProtectedOps ==
    {"POST /api/posts", "PUT /api/posts/:id", "DELETE /api/posts/:id",
     "GET /api/settings/:key", "PUT /api/settings/:key", "DELETE /api/settings/:key",
     "GET /api/settings"}

\* C17: a request to a protected route without a valid bearer token is
\* answered 401 and creates, modifies and deletes nothing; whatever changes
\* the posts or the settings is a request with a valid token.
C17_ProtectedNeedsToken ==
    [][/\ (res' # res /\ res'.op \in ProtectedOps /\ res'.auth # "valid")
             => (res'.status = 401 /\ posts' = posts /\ settings' = settings)
       /\ (posts' # posts \/ settings' # settings)
             => (res'.op \in ProtectedOps /\ res'.auth = "valid" /\ res'.status \in {200, 201})
      ]_vars

\* a PUT of a setting with an expired token has been answered 401 while a
\* post and a setting are stored
C17_Witness ==
    /\ res.op = "PUT /api/settings/:key"
    /\ res.auth = "expired"
    /\ res.status = 401
    /\ res.error = "Token expired"
    /\ \E key \in SettingKeys : settings[key] # Absent
    /\ \E id \in PostIds : posts[id].exists

\* C18: GET /api/posts/:slugOrId without an Authorization header answers
\* for a stored post with published = false what it answers for a post that
\* is not stored: 404 'Post not found' and no data, by slug and by id.
C18_UnpublishedLooksAbsent ==
    (res.op = "GET /api/posts/:slugOrId" /\ res.auth = "none") =>
       LET target == IF res.id # Absent
                       THEN {f \in PostIds : f = res.id /\ posts[f].exists}
                       ELSE {f \in PostIds :
                               /\ posts[f].exists
                               /\ posts[f].slug = res.slug
                               /\ InLang(posts[f], res.lang)}
           notFound == [res EXCEPT !.status = 404, !.error = "Post not found", !.data = <<>>]
       IN  /\ target = {} => res = notFound
           /\ \A f \in target : posts[f].published = FALSE => res = notFound
           /\ \A f \in target : posts[f].published = TRUE => res.data = <<f>>

\* a scheduled post was asked for by its slug without a header and the
\* answer is the 404
C18_Witness ==
    /\ res.op = "GET /api/posts/:slugOrId"
    /\ res.auth = "none"
    /\ res.id = Absent
    /\ res.status = 404
    /\ \E f \in PostIds :
         /\ posts[f].exists
         /\ posts[f].slug = res.slug
         /\ InLang(posts[f], res.lang)
         /\ IsScheduled(posts[f])

\* C19: GET /api/posts without a published parameter returns the posts with
\* published = true of the language asked for ('it' without lang, every
\* language with lang=all), each once, the later created first, and no post
\* with published = false.
C19_DefaultListIsPublished ==
    (res.op = "GET /api/posts" /\ res.published = "absent") =>
       /\ Range(res.data) =
             {id \in PostIds :
                 /\ posts[id].exists
                 /\ posts[id].published = TRUE
                 /\ \/ res.lang = "all"
                    \/ res.lang = "absent" /\ posts[id].language = "it"
                    \/ res.lang = posts[id].language}
       /\ \A i, j \in DOMAIN res.data :
             i < j => /\ res.data[i] # res.data[j]
                      /\ posts[res.data[i]].createdAt >= posts[res.data[j]].createdAt

\* two published posts of two languages, created at two times, are listed
\* with lang=all, the later one first
C19_Witness ==
    /\ res.op = "GET /api/posts"
    /\ res.published = "absent"
    /\ res.lang = "all"
    /\ Len(res.data) = 2
    /\ posts[res.data[1]].createdAt > posts[res.data[2]].createdAt

\* C20: an accepted PUT /api/settings/:key stores its value under the key
\* and under no other, in place of what was there; GET answers the value
\* stored (null without one); only an accepted PUT or DELETE of a key changes
\* what is stored under it; a PUT without value is answered 400 and changes
\* nothing.
C20_SettingsUpsert ==
    /\ [][(settings' # settings) =>
             /\ res'.op \in {"PUT /api/settings/:key", "DELETE /api/settings/:key"}
             /\ res'.status = 200
             /\ \A k \in SettingKeys \ {res'.key} : settings'[k] = settings[k]
         ]_vars
    /\ []((res.op = "PUT /api/settings/:key" /\ res.status = 200) =>
             (res.value # Absent /\ settings[res.key] = res.value))
    /\ []((res.op = "PUT /api/settings/:key" /\ res.auth = "valid" /\ res.value = Absent) =>
             (res.status = 400 /\ res.error = "Value is required"))
    /\ []((res.op = "GET /api/settings/:key" /\ res.status = 200) =>
             res.value = (IF settings[res.key] # Absent THEN settings[res.key] ELSE Null))

\* a value read back after a second PUT of its key, the other key keeping
\* its own
C20_Witness ==
    /\ res.op = "GET /api/settings/:key"
    /\ res.status = 200
    /\ res.value = NumValues
    /\ \E other \in SettingKeys \ {res.key} : settings[other] = 1

\* the step is a request of the track route
TrackStep == requests' # requests

\* C21: a create that throws is answered success=true, tracked=false,
\* reason='error' with status 200, the track route answers no 5xx, an event
\* is stored in a step exactly when the response of the step says
\* tracked=true, and then it is one event.
C21_TrackNeverFails ==
    [][/\ events' # events => (TrackStep /\ events' = events + 1)
       /\ TrackStep =>
             /\ track'.tracked <=> events' = events + 1
             /\ track'.status \in {200, 400}
             /\ track'.reason = "error" =>
                   (track'.status = 200 /\ track'.success /\ ~track'.tracked /\ events' = events)
             /\ track'.tracked => (track'.status = 200 /\ track'.success)
      ]_vars

\* after an event was stored, the create of a later request threw and the
\* response says so with status 200
C21_Witness ==
    /\ track.reason = "error"
    /\ track.status = 200
    /\ track.success
    /\ ~track.tracked
    /\ events = 1

\* the step is a call of isRateLimited for ip
Counted(ip) == rateLimitMap'[ip] \notin {rateLimitMap[ip], NoRecord}

\* the call of isRateLimited for ip at this time opens a window
Opens(ip) == rateLimitMap[ip] = NoRecord \/ wall > rateLimitMap[ip].resetTime

\* C22: the count of an IP is the number of its requests since the one that
\* opened its window, those arriving at resetTime included, and a request is
\* reported rate-limited exactly when it is later than the 100th of them.
C22_FirstHundredAllowed ==
    [][\A ip \in IPs :
          Counted(ip) =>
            /\ rateLimitMap'[ip].count = (IF Opens(ip) THEN 1 ELSE rateLimitMap[ip].count + 1)
            /\ (track'.reason = "rate_limited") <=> (rateLimitMap'[ip].count > 100)
            /\ (~Opens(ip) /\ rateLimitMap[ip].count < 100) => track'.reason # "rate_limited"
            /\ (~Opens(ip) /\ rateLimitMap[ip].count >= 100) => track'.reason = "rate_limited"
      ]_vars

\* the 101st request of a window, arriving at the resetTime of the window,
\* is the first reported rate-limited
C22_Witness ==
    \E ip \in RateIPs :
       /\ rateLimitMap[ip].count = 101
       /\ rateLimitMap[ip].resetTime = wall
       /\ track.ip = ip
       /\ track.reason = "rate_limited"

\* C23: a request inside a window leaves resetTime as it is, whether it is
\* allowed or limited; the first request later than resetTime is allowed,
\* sets the count to 1 and resetTime to its time + 60000, also for an IP that
\* was limited.
C23_FixedWindow ==
    [][\A ip \in IPs :
          Counted(ip) =>
            /\ ~Opens(ip) => rateLimitMap'[ip].resetTime = rateLimitMap[ip].resetTime
            /\ Opens(ip) =>
                  /\ rateLimitMap'[ip] = [count |-> 1, resetTime |-> wall + 60000]
                  /\ track'.reason # "rate_limited"
            /\ (rateLimitMap[ip] # NoRecord /\ wall > rateLimitMap[ip].resetTime) => Opens(ip)
      ]_vars

\* a second window: at a time later than the end of every window opened
\* before, a request was allowed and counts as the first
C23_Witness ==
    \E ip \in RateIPs :
       /\ wall = MaxWall * HalfWindow
       /\ wall > 60000
       /\ rateLimitMap[ip] = [count |-> 1, resetTime |-> wall + 60000]
       /\ noCleanup[ip] = rateLimitMap[ip]
       /\ track.ip = ip
       /\ track.reason # "rate_limited"

\* the times a later request may come at
Later == {wall + k * HalfWindow : k \in 0..MaxWall}

\* C24: the cleanup removes only entries with now > resetTime, and whatever
\* cleanups have run, every call of isRateLimited returns what it would
\* return on the table that no cleanup has touched.
C24_CleanupInvisible ==
    /\ [][\A ip \in IPs :
             (rateLimitMap'[ip] = NoRecord /\ rateLimitMap[ip] # NoRecord)
                => wall > rateLimitMap[ip].resetTime
         ]_vars
    /\ [](\A ip \in IPs, now \in Later :
             isRateLimited(rateLimitMap, ip, now).limited
                = isRateLimited(noCleanup, ip, now).limited)

\* the cleanup has removed the entry of an IP that was rate-limited
C24_Witness ==
    \E ip \in RateIPs :
       /\ rateLimitMap[ip] = NoRecord
       /\ noCleanup[ip].count > RATE_LIMIT_MAX
       /\ wall > noCleanup[ip].resetTime

\* C25: the response carries the reason of the first of internal IP, rate
\* limit, bot and missing path that rejects; a request from an excluded or
\* Tailscale IP leaves the rate-limit table as it is, every other request
\* counts for its IP, also when it is rejected as a bot or for its missing
\* path, and changes the entry of no other IP.
C25_FilterOrder ==
    [][TrackStep =>
         LET ip == track'.ip
             internal == ip = <<93, 41, 245, 152>> \/ (ip[1] = 100 /\ ip[2] \in 64..127)
         IN  /\ internal => (track'.reason = "internal" /\ rateLimitMap' = rateLimitMap)
             /\ ~internal =>
                   /\ rateLimitMap'[ip].count = (IF Opens(ip) THEN 1 ELSE rateLimitMap[ip].count + 1)
                   /\ \A other \in IPs \ {ip} : rateLimitMap'[other] = rateLimitMap[other]
                   /\ track'.reason =
                        (IF rateLimitMap'[ip].count > RATE_LIMIT_MAX THEN "rate_limited"
                         ELSE IF isBot(track'.agent) THEN "bot"
                         ELSE IF ~track'.hasPath THEN "path is required"
                         ELSE IF track'.tracked THEN "" ELSE "error")
                   /\ (track'.reason = "path is required") <=> (track'.status = 400)
      ]_vars

\* a request without path from a bot over the limit is answered
\* rate_limited, while the other client has its own count
C25_Witness ==
    /\ track.reason = "rate_limited"
    /\ isBot(track.agent)
    /\ ~track.hasPath
    /\ \E other \in ClientIPs \ {track.ip} : rateLimitMap[other].count = RATE_LIMIT_MAX - 1
    /\ \A ip \in IPs : IsInternal(ip) => rateLimitMap[ip] = NoRecord

\* C26: a post created by POST /api/posts has a publishedAt exactly when the
\* body said published true: the publishedAt of the body if it has one, the
\* time of the creation if not; when the body did not say published, the row
\* gets null whatever publishedAt the body brought.
C26_PublishedAtFromFlag ==
    [][\A k \in PostIds :
          (~posts[k].exists /\ posts'[k].exists) =>
             /\ res'.op = "POST /api/posts"
             /\ res'.status = 201
             /\ posts'[k].published = res'.body.published
             /\ (posts'[k].publishedAt # Null) <=> res'.body.published
             /\ res'.body.published =>
                   posts'[k].publishedAt =
                      (IF res'.body.publishedAt \in Times THEN res'.body.publishedAt ELSE clock)
             /\ ~res'.body.published => posts'[k].publishedAt = Null
      ]_vars

\* a post created unpublished with a publishedAt in its body has none
C26_Witness ==
    /\ res.op = "POST /api/posts"
    /\ res.status = 201
    /\ ~res.body.published
    /\ res.body.publishedAt \in Times
    /\ posts[res.data[1]].exists
    /\ posts[res.data[1]].publishedAt = Null
    /\ \E k \in PostIds :
          posts[k].exists /\ posts[k].published /\ posts[k].publishedAt < posts[k].createdAt

\* C27: an accepted PUT leaves the row under its id with the createdAt it
\* had, whatever id and createdAt its body brought, and changes no other
\* row; a step of the sweep changes nothing of a row but published,
\* publishedAt, scheduledAt and updatedAt.
C27_IdAndCreatedAtKept ==
    [][/\ \A k \in PostIds :
            (posts[k].exists /\ posts'[k].exists) => posts'[k].createdAt = posts[k].createdAt
       /\ (res'.op = "PUT /api/posts/:id" /\ res'.status = 200 /\ edits' # edits) =>
            /\ posts'[res'.id].exists
            /\ \A j \in PostIds \ {res'.id} : posts'[j] = posts[j]
       /\ sweeps' # sweeps =>
            \A k \in PostIds :
               posts'[k] = [posts[k] EXCEPT !.published = posts'[k].published,
                                            !.publishedAt = posts'[k].publishedAt,
                                            !.scheduledAt = posts'[k].scheduledAt,
                                            !.updatedAt = posts'[k].updatedAt]
      ]_vars

\* a post the sweep has published was then updated with another id and
\* another createdAt in the body, and has kept both
C27_Witness ==
    /\ res.op = "PUT /api/posts/:id"
    /\ res.status = 200
    /\ res.body.id \in PostIds \ {res.id}
    /\ res.body.createdAt \in Times
    /\ posts[res.id].exists
    /\ posts[res.id].createdAt # res.body.createdAt
    /\ ~posts[res.body.id].exists
    /\ notified[res.id] > 0

\* C29: the now of an execution stays what it was at its query; every row
\* of its batch had a scheduledAt no later than it; each update of the
\* execution writes publishedAt = updatedAt = that now, so the posts of one
\* execution get the same publishedAt, no earlier than the scheduledAt they
\* were selected with.
C29_OneTimestamp ==
    [][\A s \in SweepIds :
          LET sw == sweeps[s]
          IN  /\ (sw.pc \in {"update", "notify"} /\ sweeps'[s].pc \in {"update", "notify"})
                    => sweeps'[s].now = sw.now
              /\ sweeps'[s].pc = "update" =>
                    \A i \in DOMAIN sweeps'[s].postsToPublish :
                       /\ sweeps'[s].postsToPublish[i].scheduledAt # Null
                       /\ sweeps'[s].postsToPublish[i].scheduledAt <= sweeps'[s].now
              /\ (sw.pc = "update" /\ sweeps'[s].pc = "notify") =>
                    LET id == sw.postsToPublish[sw.i].id
                    IN  /\ posts'[id].publishedAt = sw.now
                        /\ posts'[id].updatedAt = sw.now
                        /\ posts'[id].publishedAt >= sw.postsToPublish[sw.i].scheduledAt
      ]_vars

\* an execution has published the two posts of its batch, due at different
\* times, with its now
C29_Witness ==
    \E s \in SweepIds :
       LET sw == sweeps[s]
       IN  /\ sw.pc = "notify"
           /\ sw.i = 2
           /\ sw.postsToPublish[1].scheduledAt # sw.postsToPublish[2].scheduledAt
           /\ \A i \in 1..2 :
                 /\ posts[sw.postsToPublish[i].id].publishedAt = sw.now
                 /\ posts[sw.postsToPublish[i].id].updatedAt = sw.now

\* C30: no step of the cron job makes a row of an id that has none; when
\* the row an execution is about to update has been deleted since the query,
\* the update throws: the row stays absent, nothing is notified and the
\* execution ends in its catch block.
C30_DeletedStaysDeleted ==
    [][sweeps' # sweeps =>
         /\ \A k \in PostIds : ~posts[k].exists => posts'[k] = NoPost
         /\ \A s \in SweepIds :
               (sweeps[s].pc = "update" /\ sweeps'[s] # sweeps[s]
                  /\ ~posts[sweeps[s].postsToPublish[sweeps[s].i].id].exists)
               => /\ notified' = notified
                  /\ sweeps'[s].pc = "done"
                  /\ sweeps'[s].error = "update"
                  /\ sweeps'[s].call = NoCall
      ]_vars

\* the row an execution is about to update was deleted after the query
C30_Witness ==
    \E s \in SweepIds :
       LET sw == sweeps[s]
       IN  /\ sw.pc = "update"
           /\ posts[sw.postsToPublish[sw.i].id] = NoPost
           /\ notified[sw.postsToPublish[sw.i].id] = 0
           /\ edits = 1

\* the last request was an upload the filter accepted
Accepted == upload.original # <<>>

\* C28: the four WebP outputs of an accepted upload have paths that differ
\* from the path of the stored original, and after a successful upload the
\* four outputs are there and the original is not.
C28_OnlyVariantsRemain ==
    Accepted =>
       /\ \A i \in 1..4 : upload.outputs[i] # upload.original
       /\ upload.status = 201 =>
             /\ upload.original \notin files
             /\ \A i \in 1..4 : upload.outputs[i] \in files

\* the same for the uploads whose name does not end in .webp as written
C28_OtherExtensions ==
    (Accepted /\ upload.original[2] # ".webp") =>
       /\ \A i \in 1..4 : upload.outputs[i] # upload.original
       /\ upload.status = 201 =>
             /\ upload.original \notin files
             /\ \A i \in 1..4 : upload.outputs[i] \in files

====
